---- MODULE Spec2Model ----
(***************************************************************************)
(* Model of src/rebate_app.py, the Eagle Chemicals rebate simulator.       *)
(*                                                                         *)
(* The program is a Streamlit script: every change of a widget re-runs the *)
(* whole script top to bottom with the widgets' current values.  The state *)
(* is the value held by every widget of the selected view plus the page    *)
(* the last run rendered.  One action is one widget edit followed by the   *)
(* complete re-run.                                                        *)
(*                                                                         *)
(* Numbers.  Volumes and the price are Python ints.  A percentage input p  *)
(* is held as the integer 4 * p (quarter points: 0.75 % is 3), so the rate *)
(* p / 100 of the source is held as rate * RateDen, and every amount of    *)
(* money (volume * price * rate) is held as amount * RateDen.  The model   *)
(* computes these products exactly; the source computes them in binary     *)
(* floating point.                                                         *)
(***************************************************************************)
EXTENDS Integers, Sequences, FiniteSets

\* ------------------------------------------------------------------ bounds

\* Largest volume / threshold a user types into a volume input.
MaxVol == 1
\* At most this many number inputs of the tiered or growth view hold a value
\* other than their default at the same time.
MaxEdited == 3
\* The same for the seventeen number inputs of the retention view.
MaxRetentionEdited == 3

\* --------------------------------------------------------------- constants

\* rate and money values are held multiplied by RateDen (see above)
RateDen == 4 * 100

TieredVolume == "Tiered Volume (Annual)"
Growth == "Growth (Over Benchmark)"
TieredRetention == "Tiered Retention (Quarter & Annual)"
RebateTypes == {TieredVolume, Growth, TieredRetention}

\* line 20
DefaultAvgPrice == 50000
\* lines 27-34: volumes, then % in quarter points (0.75, 1.00, 1.50)
DefaultTVol == <<48, 72, 96>>
DefaultTPct == <<3, 4, 6>>
\* lines 95-96 (3.0 %)
DefaultBenchmarkVol == 100
DefaultGrowthPct == 12
\* lines 138-140 and 143-145 (0.5, 0.75, 1.0 %)
DefaultATVol == <<200, 300, 400>>
DefaultATPct == <<2, 3, 4>>
DefaultQTVol == <<50, 75, 100>>
DefaultQTPct == <<2, 3, 4>>
\* lines 176-179
DefaultQVolumes == <<60, 80, 40, 0>>

\* values a user may type: volumes and the price have min_value=0, the
\* percentage inputs have no minimum
VolChoices == 0..MaxVol
PctChoices == {0 - 1, 0, 1}
PriceChoices == {0, 1}

Tiers == 1..3
Quarters == 1..4

\* the positions of a slider over 0..hi that the model tries: both ends of
\* the range and, for every mark t (a threshold), t - 1 .. t + reach
SliderChoices(hi, marks, reach) ==
    {v \in 0..hi : \/ v \in {0, hi}
                   \/ \E t \in marks : t - 1 <= v /\ v <= t + reach}

\* how many entries of s differ from the defaults d
Edited(s, d) == Cardinality({i \in DOMAIN s : s[i] # d[i]})

VARIABLES
    rebate_type,        \* sidebar selectbox (line 14)
    avg_price,          \* sidebar price input (line 20)
    t_vol,              \* <<t1_vol, t2_vol, t3_vol>>
    t_pct,              \* <<t1_pct, t2_pct, t3_pct>>
    sim_vol,            \* slider of the tiered view
    benchmark_vol,
    growth_rebate_pct,
    sim_vol_growth,     \* slider of the growth view
    at_vol,             \* <<at1_vol, at2_vol, at3_vol>>
    at_pct,
    qt_vol,             \* <<qt1_vol, qt2_vol, qt3_vol>>
    qt_pct,
    q_volumes,          \* <<q1_v, q2_v, q3_v, q4_v>>
    page                \* what the last run of the script rendered

tieredIn == <<t_vol, t_pct, sim_vol>>
growthIn == <<benchmark_vol, growth_rebate_pct, sim_vol_growth>>
retentionIn == <<at_vol, at_pct, qt_vol, qt_pct, q_volumes>>
vars == <<rebate_type, avg_price, tieredIn, growthIn, retentionIn, page>>

\* ------------------------------------------------------- 1. tiered volume

\* line 38: max_sim = int(t3_vol * 1.5) if t3_vol > 0 else 200
max_sim(vol) == IF vol[3] > 0 THEN (3 * vol[3]) \div 2 ELSE 200

\* line 39: st.slider(label, 0, max_sim, int(t1_vol)) raises when the default
\* value lies outside the slider's range; the run stops there.
SliderRaises(vol) == vol[1] > max_sim(vol)

\* mutant of CurrentRateTier: the comparisons with the volume turned round
CurrentRateTier_Flipped(v, vol) ==
    IF v <= vol[3] /\ vol[3] > 0 THEN 3
    ELSE IF v <= vol[2] /\ vol[2] > 0 THEN 2
    ELSE IF v <= vol[1] /\ vol[1] > 0 THEN 1
    ELSE 0

\* mutant of CurrentRateTier: the "> 0" guards forgotten
CurrentRateTier_NoZeroCheck(v, vol) ==
    IF v >= vol[3] THEN 3
    ELSE IF v >= vol[2] THEN 2
    ELSE IF v >= vol[1] THEN 1
    ELSE 0

\* lines 42-45: the branch of the if/elif chain that sets current_rate
\* (0: none taken, current_rate stays 0.0)
CurrentRateTier(v, vol) ==
    IF v >= vol[3] /\ vol[3] > 0 THEN 3
    ELSE IF v >= vol[2] /\ vol[2] > 0 THEN 2
    ELSE IF v >= vol[1] /\ vol[1] > 0 THEN 1
    ELSE 0

current_rate(v, vol, pct) ==
    LET b == CurrentRateTier(v, vol) IN IF b = 0 THEN 0 ELSE pct[b]

\* line 47
total_rebate(v, price, rate) == v * price * rate

\* lines 55-65: the message in column c3
NextTierMessage(v, vol) ==
    IF v < vol[1] THEN [kind |-> "Tier 1", dist |-> vol[1] - v]
    ELSE IF v < vol[2] THEN [kind |-> "Tier 2", dist |-> vol[2] - v]
    ELSE IF v < vol[3] THEN [kind |-> "MAX Tier", dist |-> vol[3] - v]
    ELSE [kind |-> "Maximum Tier Achieved", dist |-> 0]

\* line 68: x_max_plot = int(t3_vol * 1.3) if t3_vol > 0 else 100
x_max_plot(vol) == IF vol[3] > 0 THEN (13 * vol[3]) \div 10 ELSE 100

\* mutant of CurveRate: strict comparisons
CurveRate_Strict(x, vol, pct) ==
    IF x > vol[3] /\ vol[3] > 0 THEN pct[3]
    ELSE IF x > vol[2] /\ vol[2] > 0 THEN pct[2]
    ELSE IF x > vol[1] /\ vol[1] > 0 THEN pct[1]
    ELSE 0

\* lines 73-76: the rate of one curve sample
CurveRate(x, vol, pct) ==
    IF x >= vol[3] /\ vol[3] > 0 THEN pct[3]
    ELSE IF x >= vol[2] /\ vol[2] > 0 THEN pct[2]
    ELSE IF x >= vol[1] /\ vol[1] > 0 THEN pct[1]
    ELSE 0

\* line 69: x_vals = list(range(0, x_max_plot))
x_vals(vol) == [i \in 1..x_max_plot(vol) |-> i - 1]

\* lines 70-77: y_vals, one sample per element x = i - 1 of x_vals
y_vals(price, vol, pct) ==
    [i \in 1..x_max_plot(vol) |-> (i - 1) * price * CurveRate(i - 1, vol, pct)]

\* lines 25-88: one run of the tiered view.  The run stops at the slider when
\* it raises; tier records the branch of lines 43-45 that was taken.
RunTiered(price, vol, pct, v) ==
    IF SliderRaises(vol)
    THEN [view |-> TieredVolume, raised |-> TRUE]
    ELSE LET rate == current_rate(v, vol, pct)
         IN [view |-> TieredVolume, raised |-> FALSE,
             tier |-> CurrentRateTier(v, vol),
             current_rate |-> rate,
             total_rebate |-> total_rebate(v, price, rate),
             effective_discount |-> rate,
             c3 |-> NextTierMessage(v, vol),
             x_vals |-> x_vals(vol),
             y_vals |-> y_vals(price, vol, pct),
             marker |-> <<v, total_rebate(v, price, rate)>>]

\* ------------------------------------------------------- 2. growth rebate

\* line 100: the slider's top, int(benchmark_vol * 2) if benchmark_vol > 0 else 200
max_sim_growth(bench) == IF bench > 0 THEN bench * 2 ELSE 200

\* mutant of growth_vol: the max(0, .) forgotten
growth_vol_NoFloor(v, bench) == v - bench

\* line 102: growth_vol = max(0, sim_vol_growth - benchmark_vol)
growth_vol(v, bench) == IF v - bench > 0 THEN v - bench ELSE 0

\* line 103
growth_payout(gvol, price, pct) == gvol * price * pct

\* lines 109-113: column c3; the quotient of line 110 is exact
GrowthStatus(gvol, payout) ==
    IF gvol > 0
    THEN [label |-> "Extra Value per Growth Ton", per_ton_value |-> payout \div gvol]
    ELSE [label |-> "Status", value |-> "Below Benchmark"]

\* lines 115-126: the stacked bars
GrowthBars(v, bench, gvol) ==
    <<IF v < bench THEN v ELSE bench>> \o (IF gvol > 0 THEN <<gvol>> ELSE <<>>)

\* lines 93-129: one run of the growth view
RunGrowth(price, bench, pct, v) ==
    LET gvol == growth_vol(v, bench)
        payout == growth_payout(gvol, price, pct)
    IN [view |-> Growth, raised |-> FALSE,
        growth_vol |-> gvol,
        growth_payout |-> payout,
        c3 |-> GrowthStatus(gvol, payout),
        bars |-> GrowthBars(v, bench, gvol)]

\* --------------------------------------------------- 3. tiered retention

\* mutant of QRateTier: the chain tests the lowest tier first
QRateTier_LowestFirst(v, qvol) ==
    IF v >= qvol[1] /\ qvol[1] > 0 THEN 1
    ELSE IF v >= qvol[2] /\ qvol[2] > 0 THEN 2
    ELSE IF v >= qvol[3] /\ qvol[3] > 0 THEN 3
    ELSE 0

\* lines 182-186: the branch get_q_rate returns from (0: the final return 0.0)
QRateTier(v, qvol) ==
    IF v >= qvol[3] /\ qvol[3] > 0 THEN 3
    ELSE IF v >= qvol[2] /\ qvol[2] > 0 THEN 2
    ELSE IF v >= qvol[1] /\ qvol[1] > 0 THEN 1
    ELSE 0

get_q_rate(v, qvol, qpct) ==
    LET b == QRateTier(v, qvol) IN IF b = 0 THEN 0 ELSE qpct[b]

\* line 189
q_rates(vols, qvol, qpct) == [i \in Quarters |-> get_q_rate(vols[i], qvol, qpct)]

\* line 190
q_values(vols, price, rates) == [i \in Quarters |-> vols[i] * price * rates[i]]

\* Python's sum(): left to right from 0
RECURSIVE sum(_)
sum(s) == IF Len(s) = 0 THEN 0 ELSE sum(SubSeq(s, 1, Len(s) - 1)) + s[Len(s)]

\* mutant of total_q_rebate: the last quarter left out of the sum
total_q_rebate_ThreeQuarters(values) == sum(SubSeq(values, 1, 3))

\* line 192
total_q_rebate(values) == sum(values)

\* line 193
total_year_vol(vols) == sum(vols)

\* mutant of YearRateTier: the "> 0" guards forgotten
YearRateTier_NoZeroCheck(total, avol) ==
    IF total >= avol[3] THEN 3
    ELSE IF total >= avol[2] THEN 2
    ELSE IF total >= avol[1] THEN 1
    ELSE 0

\* lines 196-199: the branch that sets year_rate (0: none, year_rate stays 0.0)
YearRateTier(total, avol) ==
    IF total >= avol[3] /\ avol[3] > 0 THEN 3
    ELSE IF total >= avol[2] /\ avol[2] > 0 THEN 2
    ELSE IF total >= avol[1] /\ avol[1] > 0 THEN 1
    ELSE 0

year_rate(total, avol, apct) ==
    LET b == YearRateTier(total, avol) IN IF b = 0 THEN 0 ELSE apct[b]

\* line 201
annual_bonus(total, price, rate) == total * price * rate

\* line 202
grand_total(quarterly, bonus) == quarterly + bonus

\* lines 243-246
BonusStatus(bonus) == IF bonus = 0 THEN "warning" ELSE "success"

\* lines 134-246: one run of the retention view; q_tiers and year_tier record
\* the branches of lines 183-186 and 197-199 that were taken
RunRetention(price, avol, apct, qvol, qpct, vols) ==
    LET rates == q_rates(vols, qvol, qpct)
        values == q_values(vols, price, rates)
        quarterly == total_q_rebate(values)
        total == total_year_vol(vols)
        yrate == year_rate(total, avol, apct)
        bonus == annual_bonus(total, price, yrate)
    IN [view |-> TieredRetention, raised |-> FALSE,
        q_tiers |-> [i \in Quarters |-> QRateTier(vols[i], qvol)],
        q_rates |-> rates,
        q_values |-> values,
        total_q_rebate |-> quarterly,
        total_year_vol |-> total,
        year_tier |-> YearRateTier(total, avol),
        year_rate |-> yrate,
        annual_bonus |-> bonus,
        grand_total |-> grand_total(quarterly, bonus),
        rates_pct |-> rates \o <<yrate>>,
        max_annual_target |-> apct[3],
        status |-> BonusStatus(bonus)]

\* ------------------------------------------------------------------- runs

\* the widgets of a view that is not selected do not exist; when the view is
\* selected they are created with their defaults
TieredDefaults ==
    /\ t_vol' = DefaultTVol
    /\ t_pct' = DefaultTPct
    /\ sim_vol' = DefaultTVol[1]

GrowthDefaults ==
    /\ benchmark_vol' = DefaultBenchmarkVol
    /\ growth_rebate_pct' = DefaultGrowthPct
    /\ sim_vol_growth' = DefaultBenchmarkVol

RetentionDefaults ==
    /\ at_vol' = DefaultATVol
    /\ at_pct' = DefaultATPct
    /\ qt_vol' = DefaultQTVol
    /\ qt_pct' = DefaultQTPct
    /\ q_volumes' = DefaultQVolumes

\* lines 25, 93, 134: the run of the selected view over the new widget values
Rerun ==
    page' = CASE rebate_type' = TieredVolume ->
                    RunTiered(avg_price', t_vol', t_pct', sim_vol')
              [] rebate_type' = Growth ->
                    RunGrowth(avg_price', benchmark_vol', growth_rebate_pct',
                              sim_vol_growth')
              [] rebate_type' = TieredRetention ->
                    RunRetention(avg_price', at_vol', at_pct', qt_vol', qt_pct',
                                 q_volumes')

\* number inputs holding a non-default value after the step
EditedAfter ==
    (IF avg_price' # DefaultAvgPrice THEN 1 ELSE 0)
    + Edited(t_vol', DefaultTVol) + Edited(t_pct', DefaultTPct)
    + (IF benchmark_vol' # DefaultBenchmarkVol THEN 1 ELSE 0)
    + (IF growth_rebate_pct' # DefaultGrowthPct THEN 1 ELSE 0)
    + Edited(at_vol', DefaultATVol) + Edited(at_pct', DefaultATPct)
    + Edited(qt_vol', DefaultQTVol) + Edited(qt_pct', DefaultQTPct)
    + Edited(q_volumes', DefaultQVolumes)

WithinBudget ==
    EditedAfter <= IF rebate_type' = TieredRetention
                   THEN MaxRetentionEdited ELSE MaxEdited

\* the first run: every widget at its default, the first option selected
Init ==
    /\ rebate_type = TieredVolume
    /\ avg_price = DefaultAvgPrice
    /\ t_vol = DefaultTVol
    /\ t_pct = DefaultTPct
    /\ sim_vol = DefaultTVol[1]
    /\ benchmark_vol = DefaultBenchmarkVol
    /\ growth_rebate_pct = DefaultGrowthPct
    /\ sim_vol_growth = DefaultBenchmarkVol
    /\ at_vol = DefaultATVol
    /\ at_pct = DefaultATPct
    /\ qt_vol = DefaultQTVol
    /\ qt_pct = DefaultQTPct
    /\ q_volumes = DefaultQVolumes
    /\ page = RunTiered(DefaultAvgPrice, DefaultTVol, DefaultTPct, DefaultTVol[1])

\* lines 14-17: the selectbox
SelectRebateType(t) ==
    /\ t # rebate_type
    /\ rebate_type' = t
    /\ UNCHANGED avg_price
    /\ TieredDefaults /\ GrowthDefaults /\ RetentionDefaults
    /\ WithinBudget
    /\ Rerun

\* line 20: the price input (min_value=0)
SetAvgPrice(p) ==
    /\ p # avg_price
    /\ avg_price' = p
    /\ UNCHANGED <<rebate_type, tieredIn, growthIn, retentionIn>>
    /\ WithinBudget
    /\ Rerun

\* lines 27, 30, 33: a tier's volume input (min_value=0).  The slider of line
\* 39 is built from max_sim and int(t1_vol): when either changes, or when the
\* last run did not reach it, it is a new widget and starts at int(t1_vol).
SetTierVol(i, v) ==
    /\ rebate_type = TieredVolume
    /\ v # t_vol[i]
    /\ t_vol' = [t_vol EXCEPT ![i] = v]
    /\ sim_vol' = IF /\ max_sim(t_vol') = max_sim(t_vol)
                     /\ t_vol'[1] = t_vol[1]
                     /\ ~SliderRaises(t_vol)
                  THEN sim_vol ELSE t_vol'[1]
    /\ UNCHANGED <<rebate_type, avg_price, t_pct, growthIn, retentionIn>>
    /\ WithinBudget
    /\ Rerun

\* lines 28, 31, 34: a tier's % input (no minimum)
SetTierPct(i, r) ==
    /\ rebate_type = TieredVolume
    /\ r # t_pct[i]
    /\ t_pct' = [t_pct EXCEPT ![i] = r]
    /\ UNCHANGED <<rebate_type, avg_price, t_vol, sim_vol, growthIn, retentionIn>>
    /\ WithinBudget
    /\ Rerun

\* line 39: the slider, present only when the run reached it
SlideSimVol(v) ==
    /\ rebate_type = TieredVolume
    /\ ~SliderRaises(t_vol)
    /\ v # sim_vol
    /\ sim_vol' = v
    /\ UNCHANGED <<rebate_type, avg_price, t_vol, t_pct, growthIn, retentionIn>>
    /\ Rerun

\* line 95: the benchmark input (min_value=0); the slider of line 100 is
\* built from it and starts again at int(benchmark_vol)
SetBenchmarkVol(v) ==
    /\ rebate_type = Growth
    /\ v # benchmark_vol
    /\ benchmark_vol' = v
    /\ sim_vol_growth' = v
    /\ UNCHANGED <<rebate_type, avg_price, growth_rebate_pct, tieredIn, retentionIn>>
    /\ WithinBudget
    /\ Rerun

\* line 96
SetGrowthRebatePct(r) ==
    /\ rebate_type = Growth
    /\ r # growth_rebate_pct
    /\ growth_rebate_pct' = r
    /\ UNCHANGED <<rebate_type, avg_price, benchmark_vol, sim_vol_growth,
                   tieredIn, retentionIn>>
    /\ WithinBudget
    /\ Rerun

\* line 100
SlideSimVolGrowth(v) ==
    /\ rebate_type = Growth
    /\ v # sim_vol_growth
    /\ sim_vol_growth' = v
    /\ UNCHANGED <<rebate_type, avg_price, benchmark_vol, growth_rebate_pct,
                   tieredIn, retentionIn>>
    /\ Rerun

\* lines 138-140: an annual tier's volume or % input
SetAnnualTierVol(i, v) ==
    /\ rebate_type = TieredRetention
    /\ v # at_vol[i]
    /\ at_vol' = [at_vol EXCEPT ![i] = v]
    /\ UNCHANGED <<rebate_type, avg_price, at_pct, qt_vol, qt_pct, q_volumes,
                   tieredIn, growthIn>>
    /\ WithinBudget
    /\ Rerun

SetAnnualTierPct(i, r) ==
    /\ rebate_type = TieredRetention
    /\ r # at_pct[i]
    /\ at_pct' = [at_pct EXCEPT ![i] = r]
    /\ UNCHANGED <<rebate_type, avg_price, at_vol, qt_vol, qt_pct, q_volumes,
                   tieredIn, growthIn>>
    /\ WithinBudget
    /\ Rerun

\* lines 143-145: a quarterly tier's volume or % input
SetQuarterlyTierVol(i, v) ==
    /\ rebate_type = TieredRetention
    /\ v # qt_vol[i]
    /\ qt_vol' = [qt_vol EXCEPT ![i] = v]
    /\ UNCHANGED <<rebate_type, avg_price, at_vol, at_pct, qt_pct, q_volumes,
                   tieredIn, growthIn>>
    /\ WithinBudget
    /\ Rerun

SetQuarterlyTierPct(i, r) ==
    /\ rebate_type = TieredRetention
    /\ r # qt_pct[i]
    /\ qt_pct' = [qt_pct EXCEPT ![i] = r]
    /\ UNCHANGED <<rebate_type, avg_price, at_vol, at_pct, qt_vol, q_volumes,
                   tieredIn, growthIn>>
    /\ WithinBudget
    /\ Rerun

\* lines 176-179: a quarter's volume input (min_value=0)
SetQuarterVolume(k, v) ==
    /\ rebate_type = TieredRetention
    /\ v # q_volumes[k]
    /\ q_volumes' = [q_volumes EXCEPT ![k] = v]
    /\ UNCHANGED <<rebate_type, avg_price, at_vol, at_pct, qt_vol, qt_pct,
                   tieredIn, growthIn>>
    /\ WithinBudget
    /\ Rerun

Next ==
    \/ \E t \in RebateTypes : SelectRebateType(t)
    \/ \E p \in PriceChoices \cup {DefaultAvgPrice} : SetAvgPrice(p)
    \/ \E i \in Tiers : \E v \in VolChoices \cup {DefaultTVol[i]} : SetTierVol(i, v)
    \/ \E i \in Tiers : \E r \in PctChoices \cup {DefaultTPct[i]} : SetTierPct(i, r)
    \/ \E v \in SliderChoices(max_sim(t_vol), {t_vol[1], t_vol[2], t_vol[3]}, 0) :
          SlideSimVol(v)
    \/ \E v \in VolChoices \cup {DefaultBenchmarkVol} : SetBenchmarkVol(v)
    \/ \E r \in PctChoices \cup {DefaultGrowthPct} : SetGrowthRebatePct(r)
    \/ \E v \in SliderChoices(max_sim_growth(benchmark_vol), {benchmark_vol}, 1) :
          SlideSimVolGrowth(v)
    \/ \E i \in Tiers : \E v \in VolChoices \cup {DefaultATVol[i]} : SetAnnualTierVol(i, v)
    \/ \E i \in Tiers : \E r \in PctChoices \cup {DefaultATPct[i]} : SetAnnualTierPct(i, r)
    \/ \E i \in Tiers : \E v \in VolChoices \cup {DefaultQTVol[i]} :
          SetQuarterlyTierVol(i, v)
    \/ \E i \in Tiers : \E r \in PctChoices \cup {DefaultQTPct[i]} :
          SetQuarterlyTierPct(i, r)
    \/ \E k \in Quarters : \E v \in VolChoices \cup {DefaultQVolumes[k]} :
          SetQuarterVolume(k, v)

Spec == Init /\ [][Next]_vars

\* ----------------------------------------------------------------- claims

TieredShown == rebate_type = TieredVolume /\ ~page.raised
GrowthShown == rebate_type = Growth
RetentionShown == rebate_type = TieredRetention

\* amounts of money are held multiplied by RateDen
EGP(x) == x * RateDen

\* the tiers of a schedule that are eligible at volume v
Eligible(vol, v) == {i \in Tiers : vol[i] > 0 /\ vol[i] <= v}

\* rate is the rate of an eligible tier of highest threshold, or 0 when no
\* tier is eligible
HighestEligibleRate(rate, vol, pct, v) ==
    IF Eligible(vol, v) = {} THEN rate = 0
    ELSE \E i \in Eligible(vol, v) :
            /\ \A j \in Eligible(vol, v) : vol[j] <= vol[i]
            /\ rate = pct[i]

\* C1: at each of the three sites the resolved rate is the rate of the
\* eligible tier (threshold > 0 and <= volume) with the highest threshold,
\* and 0 when no tier is eligible, for every schedule and volume.
C1_HighestEligibleTierWins ==
    /\ TieredShown => HighestEligibleRate(page.current_rate, t_vol, t_pct, sim_vol)
    /\ RetentionShown =>
          /\ \A k \in Quarters :
                HighestEligibleRate(page.q_rates[k], qt_vol, qt_pct, q_volumes[k])
          /\ HighestEligibleRate(page.year_rate, at_vol, at_pct, page.total_year_vol)

\* the retention view with the scenario's inputs (they are the widgets' defaults)
C2_Scenario ==
    /\ RetentionShown
    /\ avg_price = 50000
    /\ qt_vol = <<50, 75, 100>> /\ qt_pct = <<2, 3, 4>>
    /\ at_vol = <<200, 300, 400>> /\ at_pct = <<2, 3, 4>>
    /\ q_volumes = <<60, 80, 40, 0>>

\* C2 as stated: the scenario yields Q1 rate 0.75 % and payout 22500, Q2 rate
\* 1 % and payout 40000, Q3 and Q4 payout 0, total quarterly 62500, annual
\* volume 180, annual bonus 0 and grand total 62500.
C2_ScenarioAsStated ==
    C2_Scenario =>
        /\ page.q_rates[1] = 3 /\ page.q_values[1] = EGP(22500)
        /\ page.q_rates[2] = 4 /\ page.q_values[2] = EGP(40000)
        /\ page.q_values[3] = 0 /\ page.q_values[4] = 0
        /\ page.total_q_rebate = EGP(62500)
        /\ page.total_year_vol = 180
        /\ page.annual_bonus = 0 /\ page.status = "warning"
        /\ page.grand_total = EGP(62500)

\* C2 amended: the scenario yields Q1 rate 0.5 % and payout 15000, Q2 rate
\* 0.75 % and payout 30000, Q3 and Q4 payout 0, total quarterly 45000, annual
\* volume 180, annual bonus 0 (not unlocked) and grand total 45000.
C2_ScenarioAsComputed ==
    C2_Scenario =>
        /\ page.q_rates[1] = 2 /\ page.q_values[1] = EGP(15000)
        /\ page.q_rates[2] = 3 /\ page.q_values[2] = EGP(30000)
        /\ page.q_values[3] = 0 /\ page.q_values[4] = 0
        /\ page.total_q_rebate = EGP(45000)
        /\ page.total_year_vol = 180
        /\ page.annual_bonus = 0 /\ page.status = "warning"
        /\ page.grand_total = EGP(45000)

C2_ScenarioReached ==
    C2_Scenario /\ page.view = TieredRetention /\ page.total_year_vol = 180

\* a step that moves only the slider of the tiered view
SlidesSimVol ==
    /\ TieredShown /\ TieredShown'
    /\ t_vol' = t_vol /\ t_pct' = t_pct /\ avg_price' = avg_price

\* the rates of the enabled tiers are non-negative and do not decrease from
\* tier 1 to tier 3
RatesAscend(vol, pct) ==
    \A i \in Tiers : vol[i] > 0 =>
        /\ pct[i] >= 0
        /\ \A j \in Tiers : j > i /\ vol[j] > 0 => pct[i] <= pct[j]

\* C3 as stated: for any schedule and price, moving to a volume at least as
\* large never lowers total_rebate.
C3_MonotoneAnySchedule ==
    [][SlidesSimVol /\ sim_vol <= sim_vol'
          => page.total_rebate <= page'.total_rebate]_vars

\* C3 amended: when the rates of the enabled tiers are non-negative and
\* non-decreasing in tier order, moving to a volume at least as large never
\* lowers total_rebate.
C3_MonotoneAscendingRates ==
    [][SlidesSimVol /\ RatesAscend(t_vol, t_pct) /\ sim_vol <= sim_vol'
          => page.total_rebate <= page'.total_rebate]_vars

C3_Witness ==
    /\ TieredShown /\ RatesAscend(t_vol, t_pct)
    /\ page.tier = 3 /\ sim_vol > t_vol[1] /\ t_vol[1] > 0
    /\ page.total_rebate > 0

\* a step that moves only the slider of the growth view
SlidesSimVolGrowth ==
    /\ GrowthShown /\ GrowthShown'
    /\ benchmark_vol' = benchmark_vol
    /\ growth_rebate_pct' = growth_rebate_pct
    /\ avg_price' = avg_price

\* C4 as stated: the growth payout is 0 at every volume <= benchmark and,
\* when the growth rate is > 0, strictly increasing over volumes > benchmark.
C4_GrowthStrictAnyPrice ==
    [][/\ GrowthShown' /\ sim_vol_growth' <= benchmark_vol'
            => page'.growth_payout = 0
       /\ SlidesSimVolGrowth /\ growth_rebate_pct > 0
            /\ benchmark_vol < sim_vol_growth /\ sim_vol_growth < sim_vol_growth'
            => page.growth_payout < page'.growth_payout]_vars

\* C4 amended: the growth payout is 0 at every volume <= benchmark and, when
\* the growth rate is > 0 and the price is > 0, strictly increasing over
\* volumes > benchmark.
C4_GrowthStrictPositivePrice ==
    [][/\ GrowthShown' /\ sim_vol_growth' <= benchmark_vol'
            => page'.growth_payout = 0
       /\ SlidesSimVolGrowth /\ growth_rebate_pct > 0 /\ avg_price > 0
            /\ benchmark_vol < sim_vol_growth /\ sim_vol_growth < sim_vol_growth'
            => page.growth_payout < page'.growth_payout]_vars

C4_Witness ==
    /\ GrowthShown /\ growth_rebate_pct > 0 /\ avg_price > 0
    /\ sim_vol_growth > benchmark_vol + 1
    /\ page.growth_payout > 0

AllZero(vol) == \A i \in Tiers : vol[i] = 0

\* C5: at all three sites the resolved rate is never taken from a tier whose
\* threshold is 0, and a schedule whose thresholds are all 0 resolves to rate
\* 0 and payout 0 at every volume.
C5_ZeroThresholdNeverSelected ==
    /\ TieredShown =>
          /\ page.tier # 0 => t_vol[page.tier] > 0
          /\ page.current_rate = IF page.tier = 0 THEN 0 ELSE t_pct[page.tier]
          /\ AllZero(t_vol) => page.current_rate = 0 /\ page.total_rebate = 0
    /\ RetentionShown =>
          /\ \A k \in Quarters :
                /\ page.q_tiers[k] # 0 => qt_vol[page.q_tiers[k]] > 0
                /\ page.q_rates[k] =
                      IF page.q_tiers[k] = 0 THEN 0 ELSE qt_pct[page.q_tiers[k]]
          /\ page.year_tier # 0 => at_vol[page.year_tier] > 0
          /\ page.year_rate = IF page.year_tier = 0 THEN 0 ELSE at_pct[page.year_tier]
          /\ AllZero(qt_vol) =>
                /\ \A k \in Quarters : page.q_rates[k] = 0
                /\ page.total_q_rebate = 0
          /\ AllZero(at_vol) => page.year_rate = 0 /\ page.annual_bonus = 0

C5_Witness ==
    /\ TieredShown /\ AllZero(t_vol)
    /\ sim_vol > 0 /\ avg_price > 0 /\ t_pct[3] > 0
    /\ page.total_rebate = 0

\* the enabled thresholds that strictly exceed volume v
Above(vol, v) == {vol[i] : i \in {j \in Tiers : vol[j] > 0 /\ vol[j] > v}}

Least(S) == CHOOSE x \in S : \A y \in S : x <= y

\* C6: in the tiered view the reported next threshold is the smallest enabled
\* threshold strictly above the volume, with unitsNeeded = threshold - volume,
\* and "Maximum Tier Achieved" is reported exactly when no enabled threshold
\* exceeds the volume.
C6_NextTierIsSmallestAbove ==
    TieredShown =>
        IF Above(t_vol, sim_vol) = {}
        THEN page.c3.kind = "Maximum Tier Achieved"
        ELSE /\ page.c3.kind # "Maximum Tier Achieved"
             /\ page.c3.dist = Least(Above(t_vol, sim_vol)) - sim_vol

\* two enabled thresholds, the later tier's below the earlier tier's
Misordered(vol) ==
    \E i, j \in Tiers : i < j /\ vol[i] > 0 /\ vol[j] > 0 /\ vol[j] < vol[i]

\* C7: when the thresholds are not ascending the run returns a configuration
\* error and produces no rate or payout.
C7_MisorderedScheduleRejected ==
    /\ rebate_type = TieredVolume /\ Misordered(t_vol)
          => "current_rate" \notin DOMAIN page /\ "total_rebate" \notin DOMAIN page
    /\ RetentionShown /\ (Misordered(qt_vol) \/ Misordered(at_vol))
          => "q_rates" \notin DOMAIN page /\ "grand_total" \notin DOMAIN page

\* C8: total_q_rebate is the sum of the four per-period payouts, each
\* v_i * price * rate(v_i) with the rate resolved from v_i alone; the annual
\* bonus is computed from the sum of the four volumes only; grand_total is
\* total_q_rebate + annual_bonus.
C8_RetentionTotalsAreSums ==
    RetentionShown =>
        /\ \A k \in Quarters :
              /\ page.q_rates[k] = get_q_rate(q_volumes[k], qt_vol, qt_pct)
              /\ page.q_values[k] = q_volumes[k] * avg_price * page.q_rates[k]
        /\ page.total_q_rebate =
              page.q_values[1] + page.q_values[2] + page.q_values[3] + page.q_values[4]
        /\ page.total_year_vol =
              q_volumes[1] + q_volumes[2] + q_volumes[3] + q_volumes[4]
        /\ page.year_rate = year_rate(page.total_year_vol, at_vol, at_pct)
        /\ page.annual_bonus = page.total_year_vol * avg_price * page.year_rate
        /\ page.grand_total = page.total_q_rebate + page.annual_bonus

C8_Witness ==
    /\ RetentionShown
    /\ page.q_values[1] > 0 /\ page.q_values[2] > 0 /\ page.q_values[4] > 0
    /\ page.annual_bonus > 0
    /\ page.grand_total > page.total_q_rebate

\* C9 as stated: the warning (annual_bonus == 0) is shown exactly when no
\* annual tier is eligible for the total volume; otherwise success is shown.
C9_WarningIffNoEligibleTier ==
    RetentionShown =>
        /\ page.status = "warning" <=> Eligible(at_vol, page.total_year_vol) = {}
        /\ page.status = "success" <=> Eligible(at_vol, page.total_year_vol) # {}

\* C9 amended: the warning is shown exactly when annual_bonus == 0, which is
\* exactly when no annual tier is eligible for the total volume, or the price
\* is 0, or the resolved annual rate is 0; otherwise success is shown.
C9_WarningIffZeroBonus ==
    RetentionShown =>
        /\ page.status = "warning" <=> page.annual_bonus = 0
        /\ page.status = "success" <=> page.annual_bonus # 0
        /\ page.annual_bonus = 0 <=>
              \/ Eligible(at_vol, page.total_year_vol) = {}
              \/ avg_price = 0
              \/ page.year_rate = 0

C9_Witness ==
    /\ RetentionShown
    /\ Eligible(at_vol, page.total_year_vol) # {}
    /\ page.annual_bonus # 0
    /\ page.status = "success"

\* C10: the curve's samples are the volumes 0 .. x_max_plot - 1 in ascending
\* order, the sample at x is the total_rebate of the single-point calculation
\* at sim_vol = x, and the marker (sim_vol, total_rebate) lies on the curve
\* whenever sim_vol < x_max_plot.
C10_CurveAgreesWithPoint ==
    TieredShown =>
        /\ Len(page.x_vals) = x_max_plot(t_vol)
        /\ Len(page.y_vals) = Len(page.x_vals)
        /\ \A i \in 1..Len(page.x_vals) :
              /\ page.x_vals[i] = i - 1
              /\ page.y_vals[i] =
                    total_rebate(page.x_vals[i], avg_price,
                                 current_rate(page.x_vals[i], t_vol, t_pct))
        /\ page.marker = <<sim_vol, page.total_rebate>>
        /\ sim_vol < x_max_plot(t_vol) =>
              /\ page.x_vals[sim_vol + 1] = page.marker[1]
              /\ page.y_vals[sim_vol + 1] = page.marker[2]

C10_Witness ==
    /\ TieredShown
    /\ sim_vol < Len(page.x_vals)
    /\ page.tier # 0
    /\ page.y_vals[sim_vol + 1] > 0
    /\ page.marker[2] = page.y_vals[sim_vol + 1]

====
